---- MODULE Spec2Model ----
(***************************************************************************)
(* Model of the Revolt Motors voice relay.                                 *)
(*                                                                         *)
(* backend/server.ts: one client connection of the WebSocket relay, its    *)
(* upstream Gemini Live session variable, the asynchronous openSession()   *)
(* and the 'message' / 'close' handlers of the client socket.              *)
(*                                                                         *)
(* vite.config.ts / index.tsx: the two versions of the browser component   *)
(* GdmLiveAudio (the one talking to the relay, the one talking to Gemini   *)
(* directly): playback scheduling, microphone capture, PCM16 encoding.     *)
(*                                                                         *)
(* One step of the model is one run-to-completion turn of the event loop:  *)
(* a handler or a promise continuation runs from its start (or from the    *)
(* await it was suspended on) to its next await or to its end.             *)
(*                                                                         *)
(* Spec is the relay, SpecPlayback the playback scheduler, SpecCapture the *)
(* capture pipeline, SpecCodec the PCM16 codec; each leaves the variables  *)
(* of the others at their initial values.                                  *)
(***************************************************************************)
EXTENDS Integers, Sequences, FiniteSets, TLC

\* ---- bounds of the model ------------------------------------------------
MaxSessions == 3      \* live.connect() calls made for the connection
MaxClientMsgs == 2    \* frames the client sends on the socket
MaxUpstream == 1      \* messages / errors the upstream sessions emit

VARIABLES
    pc,          \* position of the 'connection' handler
    readyState,  \* ws.readyState of the client socket
    session,     \* `let session: Session | null`; 0 is null, else a session id
    live,        \* per live.connect() call: state of that upstream session
    caller,      \* per live.connect() call: which openSession() call made it
    toClient,    \* frames written to the client socket by send(), in order
    inputs,      \* sendRealtimeInput() calls made, in order
    unhandled,   \* a rejection left an async handler without being caught
    discarded,   \* sessions the reset branch has closed and dropped
    received,    \* number of client frames that arrived so far
    lastRaw,     \* the client frame arriving in this turn of the event loop
    nUp,         \* number of upstream messages / errors so far
    params,      \* per live.connect() call: the parameters it was made with
    overlapped   \* a reset frame arrived while a reset's reopen was in flight

relayVars == <<pc, readyState, session, live, caller, toClient, inputs,
               unhandled, discarded, received, lastRaw, nUp, params, overlapped>>

\* GdmLiveAudio, both versions
VARIABLES
    impl,        \* "relay": vite.config.ts version, "direct": index.tsx version
    status,      \* this.status
    error        \* this.error

\* GdmLiveAudio: playback
VARIABLES
    currentTime,    \* outputAudioContext.currentTime
    nextStartTime,  \* this.nextStartTime
    sources,        \* this.sources: the segments held as active
    decoding,       \* per message: the onmessage call suspended on its decode
    started,        \* source.start() calls made, in order
    interrupts,     \* interruptions processed so far
    stopped,        \* segments source.stop() was called on
    reanchors,      \* times nextStartTime was moved other than by a segment
    nMsgs           \* messages received so far

playVars == <<currentTime, nextStartTime, sources, decoding, started,
              interrupts, stopped, reanchors, nMsgs>>

\* GdmLiveAudio: capture
VARIABLES
    isRecording,          \* this.isRecording
    mediaStream,          \* this.mediaStream; 0 is null, else a stream id
    sourceNode,           \* this.sourceNode; 0 is null
    scriptProcessorNode,  \* this.scriptProcessorNode; 0 is null
    calls,                \* per startRecording() call: where it stands
    streams,              \* per getUserMedia() call: state of the stream it gave
    nodes,                \* per startRecording() call: state of its audio nodes
    audioFrames           \* audio frames sent, by the call whose processor sent

capVars == <<isRecording, mediaStream, sourceNode, scriptProcessorNode, calls,
             streams, nodes, audioFrames>>

\* PCM16 codec
VARIABLES
    float32,     \* the samples handed to float32ToPCM16Base64
    out,         \* the Int16Array it fills
    encoded,     \* the string it returns, as base64 digits (64 is '=')
    bytes,       \* the bytes base64ToArrayBuffer makes of that string
    decoded,     \* the samples decoded from bytes
    codecPc      \* how far the samples have travelled

codecVars == <<float32, out, encoded, bytes, decoded, codecPc>>

clientVars == <<impl, status, error, playVars, capVars, codecVars>>

vars == <<relayVars, clientVars>>

Ids == 1..MaxSessions

\* absent JSON field / undefined
Undefined == "undefined"

\* ---- frames from the browser --------------------------------------------
\* raw.toString() of a client frame: json says whether JSON.parse accepts it,
\* the other fields are those of the parsed object (Undefined when absent).
RawMessages ==
    { [json |-> FALSE, type |-> Undefined, text |-> Undefined, base64 |-> Undefined],
      [json |-> TRUE,  type |-> "text",    text |-> "hi",      base64 |-> Undefined],
      [json |-> TRUE,  type |-> "text",    text |-> "",        base64 |-> Undefined],
      [json |-> TRUE,  type |-> "audio",   text |-> Undefined, base64 |-> "QUI="],
      [json |-> TRUE,  type |-> "audio",   text |-> Undefined, base64 |-> Undefined],
      [json |-> TRUE,  type |-> "reset",   text |-> Undefined, base64 |-> Undefined],
      [json |-> TRUE,  type |-> "ping",    text |-> Undefined, base64 |-> Undefined] }

NoRaw == [json |-> FALSE, type |-> "none", text |-> Undefined, base64 |-> Undefined]

\* z.string().min(1)
NonEmptyString(v) == v # Undefined /\ v # ""

\* FromClient.parse(JSON.parse(raw)) does not throw
FromClient(raw) ==
    /\ raw.json
    /\ \/ raw.type = "text" /\ NonEmptyString(raw.text)
       \/ raw.type = "audio" /\ NonEmptyString(raw.base64)
       \/ raw.type = "reset"

\* Buffer.from(base64, 'base64'): the bytes of the frames the model sends
BufferFrom(base64) ==
    CASE base64 = "QUI=" -> <<65, 66>>
      [] base64 = "QQ==" -> <<65>>
      [] OTHER -> <<>>

\* new Blob([buf], { type: 'audio/pcm' })
Blob(buf) == [bytes |-> buf, type |-> "audio/pcm"]

\* ---- frames to the browser ----------------------------------------------
\* origin is not on the wire: it records which upstream session's callback
\* (or which openSession call) produced the frame, 0 for the relay itself.
Status(message, origin) == [type |-> "status", message |-> message, origin |-> origin]
Text(text, origin) == [type |-> "text", text |-> text, origin |-> origin]
Audio(base64, mimeType, origin) ==
    [type |-> "audio", base64 |-> base64, mimeType |-> mimeType, origin |-> origin]

\* const send = (msg) => ws.readyState === ws.OPEN && ws.send(JSON.stringify(msg))
send(log, rs, msgs) == IF rs = "OPEN" THEN log \o msgs ELSE log

\* ---- upstream messages --------------------------------------------------
TextPart == [text |-> "Hello", data |-> Undefined, mimeType |-> Undefined]
AudioPart == [text |-> Undefined, data |-> "AAA=", mimeType |-> Undefined]
BothPart == [text |-> " there", data |-> "BBB=", mimeType |-> "audio/pcm; rate=16000"]
EmptyPart == [text |-> "", data |-> "", mimeType |-> Undefined]

\* m.serverContent?.modelTurn?.parts ?? []
ServerMessages ==
    { <<TextPart, BothPart>>, <<EmptyPart, AudioPart>> }

Truthy(v) == v # Undefined /\ v # ""

\* body of the for loop of onmessage for one part
PartFramesElse(p, i) ==
    IF Truthy(p.text) THEN <<Text(p.text, i)>>
    ELSE IF Truthy(p.data)
    THEN <<Audio(p.data,
                 IF p.mimeType = Undefined THEN "audio/pcm; rate=24000" ELSE p.mimeType,
                 i)>>
    ELSE <<>>
PartFrames(p, i) ==
    (IF Truthy(p.text) THEN <<Text(p.text, i)>> ELSE <<>>)
    \o (IF Truthy(p.data)
        THEN <<Audio(p.data,
                     IF p.mimeType = Undefined THEN "audio/pcm; rate=24000" ELSE p.mimeType,
                     i)>>
        ELSE <<>>)

RECURSIVE onmessage(_, _)
onmessage(parts, i) ==
    IF parts = <<>> THEN <<>>
    ELSE PartFrames(Head(parts), i) \o onmessage(Tail(parts), i)

\* ---- openSession --------------------------------------------------------
Used == {i \in Ids : live[i] # "unused"}
NextId == Cardinality(Used) + 1

\* Session.close() of the upstream socket: an open socket starts closing,
\* closing one that is closing or closed already changes nothing
SessionClose(l, s) ==
    IF s \in DOMAIN l /\ l[s] = "open" THEN [l EXCEPT ![s] = "closing"] ELSE l

\* `session.close()` of the reset branch
ResetCloseNot(l, s) == l
ResetClose(l, s) == SessionClose(l, s)

\* `session = null` of the reset branch
DropSessionNot(s) == s
DropSession(s) == 0

\* openSession() up to its await: `if (session) return`, else live.connect()
\* is started.  cur is the value of `session`, l the sessions' states.
openSessionLive(cur, l, who) ==
    IF cur # 0 THEN l ELSE [l EXCEPT ![NextId] = "connecting"]
openSessionCaller(cur, who) ==
    IF cur # 0 THEN caller ELSE [caller EXCEPT ![NextId] = who]

\* the parameters of client.live.connect()
SYSTEM_PROMPT == "Your name is Rev. You are an AI assistant exclusively for Revolt Motors."
NoParams == [systemInstruction |-> "none", model |-> "none"]
LiveConnectParamsBare ==
    [systemInstruction |-> Undefined,
     model |-> "gemini-2.5-flash-preview-native-audio-dialog"]
LiveConnectParams ==
    [systemInstruction |-> SYSTEM_PROMPT,
     model |-> "gemini-2.5-flash-preview-native-audio-dialog"]
openSessionParams(cur) ==
    IF cur # 0 THEN params ELSE [params EXCEPT ![NextId] = LiveConnectParams]

\* `send({ type: 'status', message: 'Session ready' })` closing openSession
SessionReadyLost(i) == <<>>
SessionReady(i) == <<Status("Session ready", i)>>

\* the relay when a client socket has just been accepted
RelayInit ==
    /\ pc = "accept"
    /\ readyState = "OPEN"
    /\ session = 0
    /\ live = [i \in Ids |-> "unused"]
    /\ caller = [i \in Ids |-> "none"]
    /\ toClient = <<>>
    /\ inputs = <<>>
    /\ unhandled = FALSE
    /\ discarded = {}
    /\ received = 0
    /\ lastRaw = NoRaw
    /\ nUp = 0
    /\ params = [i \in Ids |-> NoParams]
    /\ overlapped = FALSE

\* GdmLiveAudio as constructed, before init() / initClient()
ComponentInit ==
    /\ status = ""
    /\ error = ""

PlaybackInit ==
    /\ currentTime = 0
    /\ nextStartTime = 0
    /\ sources = {}
    /\ decoding = <<>>
    /\ started = <<>>
    /\ interrupts = 0
    /\ stopped = {}
    /\ reanchors = 0
    /\ nMsgs = 0

CaptureInit ==
    /\ isRecording = FALSE
    /\ mediaStream = 0
    /\ sourceNode = 0
    /\ scriptProcessorNode = 0
    /\ calls = <<>>
    /\ streams = <<>>
    /\ nodes = <<>>
    /\ audioFrames = <<>>

CodecInit ==
    /\ float32 = <<>>
    /\ out = <<>>
    /\ encoded = <<>>
    /\ bytes = <<>>
    /\ decoded = <<>>
    /\ codecPc = "idle"

Init ==
    /\ RelayInit
    /\ impl = "relay"
    /\ ComponentInit /\ PlaybackInit /\ CaptureInit /\ CodecInit

\* wss.on('connection'): runs to `await openSession()`
Accept ==
    /\ pc = "accept"
    /\ pc' = "await_open"
    /\ live' = openSessionLive(session, live, "accept")
    /\ caller' = openSessionCaller(session, "accept")
    /\ UNCHANGED <<readyState, session, toClient, inputs, unhandled, discarded,
                   received, nUp>>
    /\ lastRaw' = NoRaw
    /\ params' = openSessionParams(session)
    /\ UNCHANGED <<overlapped, clientVars>>

\* live.connect() of call i resolves: onopen runs, then openSession resumes
\* (`session = ...`, 'Session ready'); the 'connection' handler, when it was
\* the caller, goes on to register the 'message' and 'close' listeners.
ConnectResolve(i) ==
    /\ live[i] = "connecting"
    /\ live' = [live EXCEPT ![i] = "open"]
    /\ session' = i
    /\ toClient' = send(toClient, readyState,
                        <<Status("Upstream opened", i)>> \o SessionReady(i))
    /\ pc' = IF caller[i] = "accept" THEN "listening" ELSE pc
    /\ UNCHANGED <<readyState, caller, inputs, unhandled, discarded, received,
                   nUp>>
    /\ lastRaw' = NoRaw
    /\ UNCHANGED <<params, overlapped, clientVars>>

\* live.connect() of call i rejects: the 'connection' handler catches it,
\* the 'message' handler has no try around `await openSession()`.
ConnectReject(i) ==
    /\ live[i] = "connecting"
    /\ live' = [live EXCEPT ![i] = "failed"]
    /\ IF caller[i] = "accept"
       THEN /\ toClient' = send(toClient, readyState,
                                <<Status("Failed to open session: boom", i)>>)
            /\ pc' = "listening"
            /\ UNCHANGED unhandled
       ELSE /\ unhandled' = TRUE
            /\ UNCHANGED <<toClient, pc>>
    /\ UNCHANGED <<readyState, session, caller, inputs, discarded, received,
                   nUp>>
    /\ lastRaw' = NoRaw
    /\ UNCHANGED <<params, overlapped, clientVars>>

\* `if (!session) return` at the head of the 'message' listener
HasSessionAlways(s) == TRUE
HasSession(s) == s # 0

\* the input the text / audio branch hands to session.sendRealtimeInput
RealtimeInputAsText(parsed) ==
    [text |-> IF parsed.type = "text" THEN parsed.text ELSE parsed.base64]
RealtimeInput(parsed) ==
    IF parsed.type = "text"
    THEN [text |-> parsed.text]
    ELSE [media |-> Blob(BufferFrom(parsed.base64))]

\* ws.on('message'): the listener's body for the frame raw
OnMessage(raw) ==
    IF ~HasSession(session)
    THEN UNCHANGED <<pc, session, live, caller, toClient, inputs, unhandled, discarded,
                     params>>
    ELSE IF ~FromClient(raw)
    THEN /\ toClient' = send(toClient, readyState, <<Status("Bad client message", 0)>>)
         /\ UNCHANGED <<pc, session, live, caller, inputs, unhandled, discarded, params>>
    ELSE IF raw.type = "reset"
    THEN /\ NextId <= MaxSessions
         /\ LET closed == ResetClose(live, session)
                cur == DropSession(session)
            IN /\ session' = cur
               /\ live' = openSessionLive(cur, closed, "reset")
               /\ caller' = openSessionCaller(cur, "reset")
               /\ params' = openSessionParams(cur)
         /\ discarded' = discarded \cup {session}
         /\ UNCHANGED <<pc, toClient, inputs, unhandled>>
    ELSE /\ inputs' = Append(inputs, [session |-> session, input |-> RealtimeInput(raw)])
         /\ UNCHANGED <<pc, session, live, caller, toClient, unhandled, discarded, params>>

\* a frame arrives on the client socket; before the 'connection' handler has
\* passed its `await openSession()` no 'message' listener is registered and
\* the event is emitted to nobody
WsMessage(raw) ==
    /\ pc # "accept"
    /\ readyState = "OPEN"
    /\ received < MaxClientMsgs
    /\ received' = received + 1
    /\ lastRaw' = raw
    /\ IF pc = "listening"
       THEN OnMessage(raw)
       ELSE UNCHANGED <<pc, session, live, caller, toClient, inputs, unhandled, discarded,
                        params>>
    /\ overlapped' = (overlapped \/ (raw.json /\ raw.type = "reset"
                                     /\ \E i \in Ids : live[i] = "connecting"
                                                       /\ caller[i] = "reset"))
    /\ UNCHANGED <<readyState, nUp, clientVars>>

\* ws.on('close'): `try { session?.close(); } catch {}`
OnClose(l, s) == IF s # 0 THEN SessionClose(l, s) ELSE l

\* the client socket closes; the 'close' event reaches the listener only if
\* it is registered by then
WsClose ==
    /\ pc # "accept"
    /\ readyState = "OPEN"
    /\ readyState' = "CLOSED"
    /\ live' = IF pc = "listening" THEN OnClose(live, session) ELSE live
    /\ UNCHANGED <<pc, session, caller, toClient, inputs, unhandled, discarded,
                   received, nUp>>
    /\ lastRaw' = NoRaw
    /\ UNCHANGED <<params, overlapped, clientVars>>

\* upstream session i delivers a message: callbacks.onmessage.  The socket of
\* a session still delivers what was in flight after close() was called on it.
UpstreamMessage(i, parts) ==
    /\ live[i] \in {"open", "closing"}
    /\ nUp < MaxUpstream
    /\ nUp' = nUp + 1
    /\ toClient' = send(toClient, readyState, onmessage(parts, i))
    /\ UNCHANGED <<pc, readyState, session, live, caller, inputs, unhandled,
                   discarded, received>>
    /\ lastRaw' = NoRaw
    /\ UNCHANGED <<params, overlapped, clientVars>>

\* callbacks.onerror of upstream session i
UpstreamError(i) ==
    /\ live[i] \in {"open", "closing"}
    /\ nUp < MaxUpstream
    /\ nUp' = nUp + 1
    /\ toClient' = send(toClient, readyState, <<Status("Upstream error: oops", i)>>)
    /\ UNCHANGED <<pc, readyState, session, live, caller, inputs, unhandled,
                   discarded, received>>
    /\ lastRaw' = NoRaw
    /\ UNCHANGED <<params, overlapped, clientVars>>

\* callbacks.onclose of upstream session i: the close the relay asked for
\* completes, or the remote side closes the session on its own
UpstreamClose(i) ==
    /\ live[i] \in {"open", "closing"}
    /\ live' = [live EXCEPT ![i] = "closed"]
    /\ toClient' = send(toClient, readyState, <<Status("Upstream closed: bye", i)>>)
    /\ UNCHANGED <<pc, readyState, session, caller, inputs, unhandled, discarded,
                   received, nUp>>
    /\ lastRaw' = NoRaw
    /\ UNCHANGED <<params, overlapped, clientVars>>

Next ==
    \/ Accept
    \/ \E i \in Ids : ConnectResolve(i)
    \/ \E i \in Ids : ConnectReject(i)
    \/ \E raw \in RawMessages : WsMessage(raw)
    \/ WsClose
    \/ \E i \in Ids, parts \in ServerMessages : UpstreamMessage(i, parts)
    \/ \E i \in Ids : UpstreamError(i)
    \/ \E i \in Ids : UpstreamClose(i)

Spec == Init /\ [][Next]_vars

TypeOK ==
    /\ pc \in {"accept", "await_open", "listening"}
    /\ readyState \in {"OPEN", "CLOSED"}
    /\ session \in 0..MaxSessions
    /\ received \in 0..MaxClientMsgs

\* ---- GdmLiveAudio: playback ----------------------------------------------
MaxMessages == 2      \* messages the component receives
MaxClock == 2         \* ticks the output clock advances

Max(a, b) == IF a >= b THEN a ELSE b

\* frames of the relay as the 'message' listener parses them; duration is
\* the duration of the AudioBuffer the audio decodes to
RelayFrames ==
    { [type |-> "status", message |-> "Session ready", base64 |-> Undefined, duration |-> 0],
      [type |-> "text",   message |-> Undefined,       base64 |-> Undefined, duration |-> 0],
      [type |-> "audio",  message |-> Undefined,       base64 |-> "",        duration |-> 0],
      [type |-> "audio",  message |-> Undefined,       base64 |-> "AAA=",    duration |-> 1],
      [type |-> "audio",  message |-> Undefined,       base64 |-> "BBBB",    duration |-> 2] }

\* LiveServerMessage as onmessage of index.tsx reads it: text is
\* parts[0].text, audio the duration of parts[0].inlineData decoded (0: no
\* inlineData), interrupted is serverContent.interrupted
LiveMessages ==
    [text : {"Revolt RV400 is in stock", ""}, audio : {0, 1, 2}, interrupted : BOOLEAN]

\* textResponse.toLowerCase().includes('revolt')
IncludesRevolt(t) == t = "Revolt RV400 is in stock"

NotDecoding == [state |-> "none", duration |-> 0, at |-> 0, turn |-> 0, interrupted |-> FALSE]
Decoding(duration, interrupted) ==
    [state |-> "decoding", duration |-> duration, at |-> currentTime,
     turn |-> interrupts, interrupted |-> interrupted]

\* `this.nextStartTime += audioBuffer.duration`
AdvanceNot(start, duration) == start
Advance(start, duration) == start + duration

\* source.start(when): id is the message, now the clock at the call, at the
\* clock when Math.max(nextStartTime, currentTime) was taken for it, anchor
\* the value of reanchors at the call
Started(id, when, now, at, anchor) ==
    [id |-> id, start |-> when, duration |-> decoding[id].duration, now |-> now,
     at |-> at, rturn |-> decoding[id].turn, turn |-> interrupts,
     anchor |-> anchor]

\* the playback scheduler of a component of version v, just initialised:
\* init() / initAudio() set nextStartTime to the clock
PlaybackReady(v) ==
    /\ RelayInit /\ ComponentInit /\ PlaybackInit /\ CaptureInit /\ CodecInit
    /\ impl = v

InitPlayback == \E v \in {"relay", "direct"} : PlaybackReady(v)

PlaybackFrame == UNCHANGED <<relayVars, impl, error, capVars, codecVars>>

\* vite.config.ts: the 'message' listener up to `await decodeAudioData(ab)`
ListenerReceive(msg) ==
    /\ impl = "relay"
    /\ nMsgs < MaxMessages
    /\ nMsgs' = nMsgs + 1
    /\ status' = IF msg.type = "status" THEN msg.message ELSE status
    /\ decoding' = Append(decoding,
                          IF msg.type = "audio" /\ Truthy(msg.base64)
                          THEN Decoding(msg.duration, FALSE) ELSE NotDecoding)
    /\ UNCHANGED <<currentTime, nextStartTime, sources, started, interrupts,
                   stopped, reanchors>>
    /\ PlaybackFrame

\* vite.config.ts: the promise of the context's decodeAudioData is rejected
\* and the listener's `catch {}` swallows it
ListenerRejected(id) ==
    /\ impl = "relay"
    /\ id \in DOMAIN decoding /\ decoding[id].state = "decoding"
    /\ decoding' = [decoding EXCEPT ![id].state = "failed"]
    /\ UNCHANGED <<currentTime, nextStartTime, sources, started, interrupts,
                   stopped, reanchors, nMsgs, status>>
    /\ PlaybackFrame

\* vite.config.ts: the listener after its await
ListenerDecoded(id) ==
    /\ impl = "relay"
    /\ id \in DOMAIN decoding /\ decoding[id].state = "decoding"
    /\ decoding' = [decoding EXCEPT ![id].state = "done"]
    /\ LET when == Max(nextStartTime, currentTime)
       IN /\ reanchors' = IF currentTime > nextStartTime THEN reanchors + 1 ELSE reanchors
          /\ started' = Append(started, Started(id, when, currentTime, currentTime, reanchors'))
          /\ nextStartTime' = Advance(when, decoding[id].duration)
    /\ sources' = sources \cup {id}
    /\ UNCHANGED <<currentTime, interrupts, stopped, nMsgs, status>>
    /\ PlaybackFrame

\* index.tsx: `if (message.serverContent?.interrupted)` with the sources held
Interrupted(held) ==
    /\ sources' = {}
    /\ stopped' = stopped \cup held
    /\ nextStartTime' = 0
    /\ interrupts' = interrupts + 1

\* index.tsx: callbacks.onmessage up to `await decodeAudioData(...)`, or to
\* its end when the message is blocked or carries no audio
OnMessageReceive(message) ==
    /\ impl = "direct"
    /\ nMsgs < MaxMessages
    /\ nMsgs' = nMsgs + 1
    /\ IF ~IncludesRevolt(message.text)
       THEN /\ status' = "Blocked off-topic response"
            /\ decoding' = Append(decoding, NotDecoding)
            /\ UNCHANGED <<nextStartTime, sources, interrupts, stopped, reanchors>>
       ELSE IF message.audio # 0
       THEN /\ nextStartTime' = Max(nextStartTime, currentTime)
            /\ reanchors' = IF currentTime > nextStartTime THEN reanchors + 1 ELSE reanchors
            /\ decoding' = Append(decoding, Decoding(message.audio, message.interrupted))
            /\ UNCHANGED <<status, sources, interrupts, stopped>>
       ELSE IF message.interrupted
       THEN /\ Interrupted(sources)
            /\ reanchors' = reanchors + 1
            /\ decoding' = Append(decoding, NotDecoding)
            /\ UNCHANGED status
       ELSE /\ decoding' = Append(decoding, NotDecoding)
            /\ UNCHANGED <<status, nextStartTime, sources, interrupts, stopped, reanchors>>
    /\ UNCHANGED <<currentTime, started>>
    /\ PlaybackFrame

\* decodeAudioData of ./utils: its promise for the audio of message id is
\* pending; it is fulfilled in a later turn of the event loop with a buffer
\* of the audio's duration
decodeAudioData(id) == id \in DOMAIN decoding /\ decoding[id].state = "decoding"

\* index.tsx: callbacks.onmessage after its await
OnMessageDecoded(id) ==
    /\ impl = "direct"
    /\ decodeAudioData(id)
    /\ decoding' = [decoding EXCEPT ![id].state = "done"]
    /\ IF decoding[id].interrupted
       THEN /\ Interrupted(sources \cup {id})
            /\ reanchors' = reanchors + 1
       ELSE /\ nextStartTime' = Advance(nextStartTime, decoding[id].duration)
            /\ sources' = sources \cup {id}
            /\ UNCHANGED <<interrupts, stopped, reanchors>>
    /\ started' = Append(started, Started(id, nextStartTime, currentTime, decoding[id].at, reanchors))
    /\ UNCHANGED <<currentTime, nMsgs, status>>
    /\ PlaybackFrame

\* the output clock advances
Tick ==
    /\ currentTime < MaxClock
    /\ currentTime' = currentTime + 1
    /\ UNCHANGED <<nextStartTime, sources, decoding, started, interrupts, stopped,
                   reanchors, nMsgs, status>>
    /\ PlaybackFrame

\* the segment of message id has played to its end
PlayedOut(id) ==
    \E k \in 1..Len(started) :
        /\ started[k].id = id
        /\ Max(started[k].start, started[k].now) + started[k].duration <= currentTime

\* 'ended' listener of a source: `this.sources.delete(source)`
Ended(id) ==
    /\ id \in sources
    /\ PlayedOut(id)
    /\ sources' = sources \ {id}
    /\ UNCHANGED <<currentTime, nextStartTime, decoding, started, interrupts,
                   stopped, reanchors, nMsgs, status>>
    /\ PlaybackFrame

NextPlayback ==
    \/ \E msg \in RelayFrames : ListenerReceive(msg)
    \/ \E id \in 1..MaxMessages : ListenerDecoded(id)
    \/ \E id \in 1..MaxMessages : ListenerRejected(id)
    \/ \E message \in LiveMessages : OnMessageReceive(message)
    \/ \E id \in 1..MaxMessages : OnMessageDecoded(id)
    \/ Tick
    \/ \E id \in 1..MaxMessages : Ended(id)

SpecPlayback == InitPlayback /\ [][NextPlayback]_vars

\* ---- PCM16 codec ---------------------------------------------------------
MaxSamples == 2       \* samples in one Float32Array
Grid == 4             \* sample values are taken around multiples of 1/Grid

\* a sample x is held as the integer x * Unit: the multiples of 1/65536, all
\* of them Float32 values
Unit == 2 * 32768

Min(a, b) == IF a <= b THEN a ELSE b

\* sample values: around the grid points of [-1, 1], and two beyond it
Samples ==
    { n \in { k * (Unit \div Grid) + e : k \in (-Grid)..Grid, e \in {-1, 0, 1} } :
          -Unit <= n /\ n <= Unit }
    \cup {-2 * Unit, 2 * Unit}

Float32Arrays == UNION { [1..n -> Samples] : n \in 0..MaxSamples }

\* a / b for b > 0 with the fraction dropped (towards zero): what a store to
\* an Int16Array does first
Trunc(a, b) == IF a >= 0 \/ a % b = 0 THEN a \div b ELSE (a \div b) + 1

\* ... and then wraps to 16 bits, two's complement
ToInt16(v) == LET u == v % 65536 IN IF u >= 32768 THEN u - 65536 ELSE u

\* `s < 0 ? s * 0x8000 : s * 0x7fff`, as a multiple of 1/Unit
ScaleSame(s) == s * 32767
Scale(s) == IF s < 0 THEN s * 32768 ELSE s * 32767

\* `Math.max(-1, Math.min(1, float32[i]))`
Clamp(x) == Max(-Unit, Min(Unit, x))

\* the value float32ToPCM16Base64 stores in out[i]
PCM16(x) == ToInt16(Trunc(Scale(Clamp(x)), Unit))

\* new Uint8Array(out.buffer): two bytes per sample, low byte first
RECURSIVE Uint8Array(_)
Uint8Array(int16) ==
    IF int16 = <<>> THEN <<>>
    ELSE LET u == Head(int16) % 65536
         IN <<u % 256, u \div 256>> \o Uint8Array(Tail(int16))

\* btoa(String.fromCharCode(...bytes))
RECURSIVE btoa(_)
btoa(b) ==
    IF Len(b) = 0 THEN <<>>
    ELSE IF Len(b) = 1 THEN <<b[1] \div 4, (b[1] % 4) * 16, 64, 64>>
    ELSE IF Len(b) = 2
    THEN <<b[1] \div 4, (b[1] % 4) * 16 + b[2] \div 16, (b[2] % 16) * 4, 64>>
    ELSE <<b[1] \div 4, (b[1] % 4) * 16 + b[2] \div 16,
           (b[2] % 16) * 4 + b[3] \div 64, b[3] % 64>>
         \o btoa(SubSeq(b, 4, Len(b)))

\* atob(base64) and the loop over charCodeAt
RECURSIVE base64ToArrayBuffer(_)
base64ToArrayBuffer(c) ==
    IF Len(c) < 4 THEN <<>>
    ELSE (IF c[3] = 64 THEN <<c[1] * 4 + c[2] \div 16>>
          ELSE IF c[4] = 64
          THEN <<c[1] * 4 + c[2] \div 16, (c[2] % 16) * 16 + c[3] \div 4>>
          ELSE <<c[1] * 4 + c[2] \div 16, (c[2] % 16) * 16 + c[3] \div 4,
                 (c[3] % 4) * 64 + c[4]>>)
         \o base64ToArrayBuffer(SubSeq(c, 5, Len(c)))

\* decode of the PCM codec: the little-endian signed 16-bit value of each
\* pair of bytes divided by 32768, as a multiple of 1/Unit
RECURSIVE decode(_)
decode(b) ==
    IF Len(b) < 2 THEN <<>>
    ELSE <<ToInt16(b[1] + 256 * b[2]) * (Unit \div 32768)>>
         \o decode(SubSeq(b, 3, Len(b)))

InitCodec ==
    /\ RelayInit /\ impl = "relay" /\ ComponentInit /\ PlaybackInit /\ CaptureInit
    /\ float32 \in Float32Arrays
    /\ out = <<>> /\ encoded = <<>> /\ bytes = <<>> /\ decoded = <<>>
    /\ codecPc = "idle"

CodecFrame == UNCHANGED <<relayVars, impl, status, error, playVars, capVars>>

\* float32ToPCM16Base64(float32)
Float32ToPCM16Base64 ==
    /\ codecPc = "idle"
    /\ out' = [i \in 1..Len(float32) |-> PCM16(float32[i])]
    /\ encoded' = btoa(Uint8Array(out'))
    /\ codecPc' = "encoded"
    /\ UNCHANGED <<float32, bytes, decoded>>
    /\ CodecFrame

\* base64ToArrayBuffer(base64) on the receiving side
Base64ToArrayBuffer ==
    /\ codecPc = "encoded"
    /\ bytes' = base64ToArrayBuffer(encoded)
    /\ codecPc' = "framed"
    /\ UNCHANGED <<float32, out, encoded, decoded>>
    /\ CodecFrame

\* decode(bytes)
Decode ==
    /\ codecPc = "framed"
    /\ decoded' = decode(bytes)
    /\ codecPc' = "decoded"
    /\ UNCHANGED <<float32, out, encoded, bytes>>
    /\ CodecFrame

NextCodec == Float32ToPCM16Base64 \/ Base64ToArrayBuffer \/ Decode

SpecCodec == InitCodec /\ [][NextCodec]_vars

\* ---- GdmLiveAudio: capture -----------------------------------------------
MaxCalls == 2         \* startRecording() calls
MaxFrames == 2        \* audio frames the processors hand over

InitCapture ==
    /\ RelayInit /\ ComponentInit /\ PlaybackInit /\ CaptureInit /\ CodecInit
    /\ impl \in {"relay", "direct"}

CaptureFrame == UNCHANGED <<relayVars, impl, playVars, codecVars>>

\* startRecording() up to `await this.inputAudioContext.resume()`
StartRecording ==
    /\ Len(calls) < MaxCalls
    /\ IF isRecording
       THEN UNCHANGED <<calls, streams, nodes>>
       ELSE /\ calls' = Append(calls, "resume")
            /\ streams' = Append(streams, "none")
            /\ nodes' = Append(nodes, "none")
    /\ UNCHANGED <<isRecording, mediaStream, sourceNode, scriptProcessorNode,
                   audioFrames, status, error>>
    /\ CaptureFrame

\* startRecording() from the first await to `await getUserMedia(...)`
ResumeResolved(c) ==
    /\ c \in DOMAIN calls /\ calls[c] = "resume"
    /\ calls' = [calls EXCEPT ![c] = "getUserMedia"]
    /\ status' = "Requesting microphone access..."
    /\ UNCHANGED <<isRecording, mediaStream, sourceNode, scriptProcessorNode,
                   streams, nodes, audioFrames, error>>
    /\ CaptureFrame

\* the body of stopRecording() past its guard, on the fields as given
Release(stream, node, ss, ns) ==
    /\ isRecording' = FALSE
    /\ nodes' = [c \in DOMAIN ns |-> IF c = node THEN "disconnected" ELSE ns[c]]
    /\ streams' = [c \in DOMAIN ss |-> IF c = stream THEN "stopped" ELSE ss[c]]
    /\ scriptProcessorNode' = 0
    /\ sourceNode' = 0
    /\ mediaStream' = 0
    /\ status' = "Recording stopped."

\* `if (!this.isRecording && !this.mediaStream) return;`
NothingToStopNot(stream) == FALSE
NothingToStop(stream) == ~isRecording /\ stream = 0

\* stopRecording()
StopRecording ==
    /\ IF NothingToStop(mediaStream)
       THEN UNCHANGED <<isRecording, mediaStream, sourceNode, scriptProcessorNode,
                        streams, nodes, status>>
       ELSE Release(mediaStream, scriptProcessorNode, streams, nodes)
    /\ UNCHANGED <<calls, audioFrames, error>>
    /\ CaptureFrame

\* the catch block of startRecording(): report err, then stopRecording()
Catch(message, stream, ss) ==
    /\ error' = IF impl = "relay" THEN message ELSE error
    /\ IF NothingToStop(stream)
       THEN /\ status' = IF impl = "relay" THEN status ELSE "Error: " \o message
            /\ isRecording' = isRecording
            /\ mediaStream' = stream
            /\ streams' = ss
            /\ UNCHANGED <<sourceNode, scriptProcessorNode, nodes>>
       ELSE Release(stream, scriptProcessorNode, ss, nodes)

\* getUserMedia() is rejected
GetUserMediaRejected(c) ==
    /\ c \in DOMAIN calls /\ calls[c] = "getUserMedia"
    /\ calls' = [calls EXCEPT ![c] = "done"]
    /\ Catch("Permission denied", mediaStream, streams)
    /\ UNCHANGED audioFrames
    /\ CaptureFrame

\* getUserMedia() is fulfilled and the graph is wired; wired is FALSE when
\* createMediaStreamSource throws
GetUserMediaResolved(c, wired) ==
    /\ c \in DOMAIN calls /\ calls[c] = "getUserMedia"
    /\ calls' = [calls EXCEPT ![c] = "done"]
    /\ IF wired
       THEN /\ mediaStream' = c
            /\ streams' = [streams EXCEPT ![c] = "live"]
            /\ sourceNode' = c
            /\ scriptProcessorNode' = c
            /\ nodes' = [nodes EXCEPT ![c] = "connected"]
            /\ isRecording' = TRUE
            /\ status' = "Recording..."
            /\ UNCHANGED error
       ELSE Catch("createMediaStreamSource failed", c, [streams EXCEPT ![c] = "live"])
    /\ UNCHANGED audioFrames
    /\ CaptureFrame

\* onaudioprocess of the processor wired by call c
OnAudioProcess(c) ==
    /\ c \in DOMAIN nodes /\ nodes[c] = "connected"
    /\ Len(audioFrames) < MaxFrames
    /\ audioFrames' = IF isRecording THEN Append(audioFrames, c) ELSE audioFrames
    /\ UNCHANGED <<isRecording, mediaStream, sourceNode, scriptProcessorNode, calls,
                   streams, nodes, status, error>>
    /\ CaptureFrame

NextCapture ==
    \/ StartRecording
    \/ \E c \in 1..MaxCalls : ResumeResolved(c)
    \/ \E c \in 1..MaxCalls : GetUserMediaRejected(c)
    \/ \E c \in 1..MaxCalls, wired \in BOOLEAN : GetUserMediaResolved(c, wired)
    \/ StopRecording
    \/ \E c \in 1..MaxCalls : OnAudioProcess(c)

SpecCapture == InitCapture /\ [][NextCapture]_vars

\* ---- properties of the relay --------------------------------------------
Opening(i) == live[i] = "connecting"
Opened(i) == live[i] \in {"open", "closing", "closed"}
IsStatus(f, message) == f.type = "status" /\ f.message = message

\* the frames the step appends to what the client is sent
NewFrames == SubSeq(toClient', Len(toClient) + 1, Len(toClient'))

\* the step is the arrival of a client frame
Arrives == received' = received + 1

\* C1: in every reachable state at most one upstream session of the
\* connection is being opened or open.
AtMostOneSession ==
    Cardinality({i \in Ids : live[i] \in {"connecting", "open"}}) <= 1

\* a reset closed the session it found while its replacement is being opened
ResetReplacesSession ==
    \E i, j \in Ids : /\ live[i] = "closing" /\ i \in discarded
                      /\ live[j] = "connecting" /\ caller[j] = "reset"

\* C2: once the client socket is closed and no live.connect() is in flight,
\* no upstream session of the connection is left open.
TransportCloseClosesSession ==
    (readyState = "CLOSED" /\ \A i \in Ids : ~Opening(i))
        => \A i \in Ids : live[i] # "open"

\* C3: a step that hands a client text / audio input to a session hands it
\* to the session currently held, which no reset has closed; while `session`
\* is null between a reset's close and its reopen nothing is handed over.
NoForwardDuringReset ==
    [][inputs' # inputs =>
          /\ session # 0
          /\ session \notin discarded
          /\ inputs' = Append(inputs, inputs'[Len(inputs')])
          /\ inputs'[Len(inputs')].session = session
          /\ inputs'[Len(inputs')].session \notin discarded']_vars

\* a valid text / audio frame arrived while a reset's reopen was in flight
InputDuringReset ==
    /\ discarded # {}
    /\ session = 0
    /\ \E i \in Ids : Opening(i) /\ caller[i] = "reset"
    /\ FromClient(lastRaw) /\ lastRaw.type \in {"text", "audio"}

\* C4: no text or audio frame is sent to the client on behalf of a session
\* that a reset has closed.
NoOutputFromDiscardedSession ==
    [][\A k \in 1..Len(NewFrames) :
          NewFrames[k].type \in {"text", "audio"}
              => NewFrames[k].origin \notin discarded]_vars

\* number of 'Session ready' frames sent for live.connect() call i
ReadyCount(i) ==
    Cardinality({k \in 1..Len(toClient) : toClient[k] = Status("Session ready", i)})

\* call i was made by a reset and has resolved
Reopened(i) == caller[i] = "reset" /\ Opened(i)

\* C5 (as claimed): for every reset whose reopen succeeded exactly one
\* 'Session ready' is sent to the client, and only after the new session
\* has been opened.
SessionReadyOncePerReset ==
    \A i \in Ids : /\ Reopened(i) => ReadyCount(i) = 1
                   /\ ReadyCount(i) > 0 => Opened(i)

\* C5 (amended): exactly one 'Session ready' for every reset whose reopen
\* succeeded while the client socket is still open, never more than one,
\* and only after the new session has been opened.
SessionReadyOnceWhileConnected ==
    \A i \in Ids : /\ (Reopened(i) /\ readyState = "OPEN") => ReadyCount(i) = 1
                   /\ ReadyCount(i) <= 1
                   /\ ReadyCount(i) > 0 => Opened(i)

\* a reset's reopen has succeeded and its 'Session ready' has been sent
ResetReopened == \E i \in Ids : Reopened(i) /\ ReadyCount(i) = 1

\* C6: no status frame of a session that a reset has closed follows the
\* 'Session ready' of a session opened after it.
NoOldStatusAfterReopen ==
    \A j, k \in 1..Len(toClient) :
        ~ /\ j < k
          /\ IsStatus(toClient[j], "Session ready")
          /\ toClient[k].type = "status"
          /\ toClient[k].origin \in discarded
          /\ toClient[k].origin < toClient[j].origin

\* C7: the arrival of a frame that fails validation sends exactly one
\* 'Bad client message', forwards nothing and closes neither the socket nor
\* a session, whatever the state of the upstream session.
BadMessageAlwaysReported ==
    [][(Arrives /\ ~FromClient(lastRaw')) =>
          /\ toClient' = Append(toClient, Status("Bad client message", 0))
          /\ inputs' = inputs
          /\ live' = live
          /\ session' = session
          /\ readyState' = readyState]_vars

\* C8: every live.connect() that fails leaves `session` null, is reported
\* as 'Failed to open session: <reason>' (the client socket being open) and
\* leaves no rejection unhandled.
FailedOpenReported ==
    [][\A i \in Ids : (Opening(i) /\ live'[i] = "failed") =>
          /\ session' = 0
          /\ unhandled' = unhandled
          /\ readyState = "OPEN" =>
                toClient' = Append(toClient, Status("Failed to open session: boom", i))]_vars

\* C9: a reset arriving after the open has failed, the client socket open
\* and no session held, starts a new live.connect().
ResetRetriesFailedOpen ==
    [][(/\ Arrives
        /\ lastRaw'.json /\ lastRaw'.type = "reset"
        /\ pc = "listening"
        /\ session = 0
        /\ \A i \in Ids : ~Opening(i)
        /\ \E i \in Ids : live[i] = "failed"
        /\ NextId <= MaxSessions)
          => \E i \in Ids : live[i] = "unused" /\ live'[i] = "connecting"]_vars

\* the step is the arrival of a valid text / audio frame while the session
\* held is open
ForwardArrives ==
    /\ Arrives
    /\ FromClient(lastRaw') /\ lastRaw'.type \in {"text", "audio"}
    /\ session # 0 /\ live[session] = "open"

\* the input is what the frame raw is to be handed over as
InputOf(input, raw) ==
    IF raw.type = "text"
    THEN DOMAIN input = {"text"} /\ input.text = raw.text
    ELSE /\ DOMAIN input = {"media"}
         /\ input.media.type = "audio/pcm"
         /\ input.media.bytes = BufferFrom(raw.base64)

\* C10: while the session is open each valid text frame is handed to the
\* session as text input and each valid audio frame as media input, once,
\* at its arrival (hence in arrival order), and no frame is sent to the
\* client by that step.
ForwardedOnceInOrder ==
    [][/\ ForwardArrives =>
             /\ Len(inputs') = Len(inputs) + 1
             /\ SubSeq(inputs', 1, Len(inputs)) = inputs
             /\ inputs'[Len(inputs')].session = session
             /\ InputOf(inputs'[Len(inputs')].input, lastRaw')
             /\ toClient' = toClient
       /\ ~Arrives => inputs' = inputs]_vars

\* a text frame and then an audio frame have been forwarded to one session
TextThenAudioForwarded ==
    /\ Len(inputs) >= 2
    /\ DOMAIN inputs[1].input = {"text"}
    /\ DOMAIN inputs[2].input = {"media"}
    /\ inputs[1].session = inputs[2].session

\* the payloads the parts carry, in part order: slot 2k-1 is the text of part
\* k, slot 2k its inline audio
Carried(parts) ==
    LET slot(n) == LET p == parts[(n + 1) \div 2]
                   IN IF n % 2 = 1
                      THEN [type |-> "text", payload |-> p.text]
                      ELSE [type |-> "audio", payload |-> p.data]
        carries(c) == c.payload # Undefined /\ c.payload # ""
    IN SelectSeq([n \in 1..(2 * Len(parts)) |-> slot(n)], carries)

\* type and payload of the frames
Payloads(frames) ==
    [k \in 1..Len(frames) |->
        [type |-> frames[k].type,
         payload |-> IF frames[k].type = "text" THEN frames[k].text
                     ELSE IF frames[k].type = "audio" THEN frames[k].base64
                     ELSE frames[k].message]]

\* the step appends to toClient and leaves what was sent before in place
Appends == SubSeq(toClient', 1, Len(toClient)) = toClient

SystemPromptAlwaysInjected ==
    /\ \A i \in Ids : live[i] # "unused"
          => params[i].systemInstruction = SYSTEM_PROMPT
    /\ \A k \in 1..Len(inputs) : DOMAIN inputs[k].input \in {{"text"}, {"media"}}

\* a session reopened by a reset, after the client's text went upstream
ReopenedAfterClientText ==
    /\ \E i \in Ids : Reopened(i)
    /\ \E k \in 1..Len(inputs) : DOMAIN inputs[k].input = {"text"}

\* C16: a reset frame arriving while a reset's reopen is in flight closes no
\* session and starts no live.connect(); never are two opens in flight.
ResetsDoNotInterleave ==
    [][/\ (Arrives /\ lastRaw'.json /\ lastRaw'.type = "reset"
           /\ \E i \in Ids : Opening(i) /\ caller[i] = "reset")
          => live' = live /\ session' = session /\ discarded' = discarded
       /\ Cardinality({i \in Ids : live'[i] = "connecting"}) <= 1]_vars

\* a second reset has arrived during a reopen that is still in flight
ResetDuringReopen ==
    overlapped /\ \E i \in Ids : Opening(i) /\ caller[i] = "reset"

\* C17: a client text / audio input is handed to a session only when that
\* session is open at the arrival of the frame, and only at its arrival.
ForwardOnlyToOpenSession ==
    [][/\ inputs' # inputs => (Arrives /\ session # 0 /\ live[session] = "open")
       /\ ~Arrives => inputs' = inputs]_vars

\* ---- properties of playback ----------------------------------------------
\* C12: audio segments scheduled one after another, with nextStartTime moved
\* only by the segments themselves between them (none arrived late, no
\* interrupt), play back to back: each starts where the one scheduled before
\* it ends, also when their message handlers interleave.
SegmentsContiguous ==
    \A k \in 1..(Len(started) - 1) :
        started[k + 1].anchor = started[k].anchor
            => started[k + 1].start = started[k].start + started[k].duration

\* two handlers interleaved (the later message was scheduled first) and their
\* segments were scheduled in a chain
InterleavedChain ==
    /\ Len(started) >= 2
    /\ started[1].id > started[2].id
    /\ started[1].anchor = started[2].anchor
    /\ started[2].start = started[1].start + started[1].duration

\* C13: after an interrupt the set of active sources holds only segments
\* received after it, and the first segment scheduled after it starts at the
\* clock of its enqueueing, not at a stale nextStartTime.
InterruptClearsPlayback ==
    /\ \A id \in sources : decoding[id].turn = interrupts
    /\ \A k \in 1..Len(started) :
           (started[k].turn > 0 /\ \A j \in 1..(k - 1) : started[j].turn < started[k].turn)
               => started[k].start = started[k].at

\* C18: no segment is started at a time before the clock at the call of
\* start().
StartNotInPast ==
    \A k \in 1..Len(started) : started[k].start >= started[k].now

\* C19: with the relay's client, a segment that arrived earlier is scheduled
\* to start earlier.
ScheduledInArrivalOrder ==
    impl = "relay" =>
        \A j, k \in 1..Len(started) :
            started[j].id < started[k].id => started[j].start < started[k].start

\* ---- properties of the codec ---------------------------------------------
Abs(a) == IF a >= 0 THEN a ELSE -a

InRange(x) == -Unit <= x /\ x <= Unit

\* C14 as stated: every sample of [-1, 1] comes back from encode and decode
\* within 1/32767 of itself, and every encoded value is a signed 16-bit
\* value.
RoundTripWithinQuantum ==
    codecPc = "decoded" =>
        /\ Len(decoded) = Len(float32)
        /\ \A i \in 1..Len(float32) :
               /\ out[i] \in (-32768)..32767
               /\ InRange(float32[i]) => Abs(float32[i] - decoded[i]) * 32767 <= Unit

\* C14, amended: every sample of [-1, 1] comes back from encode and decode
\* less than 2/32768 from itself (a negative sample less than 1/32768), and
\* every encoded value is a signed 16-bit value.
RoundTripWithinTwoQuanta ==
    codecPc = "decoded" =>
        /\ Len(decoded) = Len(float32)
        /\ \A i \in 1..Len(float32) :
               /\ out[i] \in (-32768)..32767
               /\ InRange(float32[i]) =>
                      /\ Abs(float32[i] - decoded[i]) * 32768 < 2 * Unit
                      /\ float32[i] < 0 => Abs(float32[i] - decoded[i]) * 32768 < Unit

\* a sample just below 1 and a negative sample went through the round trip
NearOneDecoded ==
    /\ codecPc = "decoded"
    /\ \E i \in 1..Len(float32) : float32[i] = Unit - 1 /\ decoded[i] # float32[i]
    /\ \E i \in 1..Len(float32) : float32[i] < 0 /\ InRange(float32[i])

\* ---- properties of capture -----------------------------------------------
Held == {c \in DOMAIN streams : streams[c] = "live"}

\* C20: the capture pipeline holds at most one microphone stream at a time,
\* and a stream it holds is the one stopRecording would release.
AtMostOneStreamHeld ==
    /\ Cardinality(Held) <= 1
    /\ \A c \in Held : mediaStream = c

\* stopRecording() would return at its guard
NotStarted == ~isRecording /\ mediaStream = 0

\* C21: stopRecording() on a pipeline that is not started changes nothing;
\* on a started one it leaves isRecording false and the stream and both nodes
\* null, with the stream it held stopped and the processor it held
\* disconnected, i.e. in a state where a second call changes nothing.
StopRecordingIdempotent ==
    [][StopRecording =>
          /\ NotStarted => UNCHANGED vars
          /\ ~isRecording' /\ mediaStream' = 0 /\ sourceNode' = 0
                /\ scriptProcessorNode' = 0
          /\ mediaStream # 0 => streams'[mediaStream] = "stopped"
          /\ scriptProcessorNode # 0 => nodes'[scriptProcessorNode] = "disconnected"]_vars

\* stopRecording() has released a recording pipeline that sent a frame
StoppedWhileRecording ==
    /\ status = "Recording stopped."
    /\ NotStarted
    /\ \E c \in DOMAIN streams : streams[c] = "stopped" /\ nodes[c] = "disconnected"
    /\ audioFrames # <<>>

\* a startRecording() attempt fails: getUserMedia is rejected, or a later step
\* throws
AttemptFails(c) == GetUserMediaRejected(c) \/ GetUserMediaResolved(c, FALSE)

\* C22: when an attempt to start recording fails, the component is left not
\* recording with no stream and no node held, the reason is reported, and no
\* audio frame was sent by that attempt.
FailedStartReportedAndIdle ==
    [][\A c \in 1..MaxCalls :
          AttemptFails(c) =>
              /\ ~isRecording' /\ mediaStream' = 0 /\ sourceNode' = 0
                    /\ scriptProcessorNode' = 0
              /\ error' = "Permission denied" \/ status' = "Error: Permission denied"
                    \/ error' = "createMediaStreamSource failed"
                    \/ status' = "Error: createMediaStreamSource failed"
              /\ \A k \in 1..Len(audioFrames') : audioFrames'[k] # c]_vars

\* C23: with the direct client, a message flagged interrupted leaves no
\* source active and nextStartTime at 0 when its handler ends, and a message
\* with inline audio goes to the decoder to be scheduled, whatever text the
\* message carries.
InterruptAndAudioRegardlessOfText ==
    [][/\ \A message \in LiveMessages :
             OnMessageReceive(message) =>
                 /\ (message.interrupted /\ message.audio = 0)
                        => sources' = {} /\ nextStartTime' = 0
                 /\ message.audio # 0 => decoding'[nMsgs'].state = "decoding"
       /\ \A id \in 1..MaxMessages :
             (OnMessageDecoded(id) /\ decoding[id].interrupted)
                 => sources' = {} /\ nextStartTime' = 0]_vars

====
